---- MODULE Spec2Model ----
(***************************************************************************)
(* Connection-lifecycle manager of the sensor backend                      *)
(* (apps/backend/app/database/mongodb.py, class MongoDB) and the four      *)
(* store operations built on it, as coroutines on one asyncio event loop.  *)
(*                                                                         *)
(* Scheduling: a coroutine runs without interruption from one suspension   *)
(* point (an awaited driver call, or a contended lock) to the next.        *)
(* `running` names the task that currently owns the loop (0: the loop is   *)
(* free and may resume any ready task); pc[t] is the place task t is at.   *)
(* None is modelled as 0.  Driver objects (clients, locks) are small       *)
(* integers; a fresh object takes the smallest identity nobody refers to.  *)
(***************************************************************************)
EXTENDS Integers, Sequences, FiniteSets, TLC

\* ---------------------------------------------------------------- bounds
NumTasks == 2
MaxLoops == 3
ConcDocs == 1
MaxReading == 1
MaxOps == 3
SeqOps == 3
SeqDocs == 2
MaxClock == 1
MaxStored == 2
MaxTs == 2
StoreOpsBudget == 2
StoreReadings == 2
MaxSeed == 2
SeedOps == 3
SeedDocs == 2
LiveOps == 3

Tasks == 1..NumTasks
LockIds == 1..(NumTasks + 1)
ClientIds == 1..(NumTasks + 2)
Readings == 1..MaxReading

VARIABLES
  client,            \* MongoDB.client            (0 = None)
  database,          \* MongoDB.database          (0 = None, else the client it came from)
  connection_lock,   \* MongoDB._connection_lock  (0 = None, else a lock object)
  lock_loop_id,      \* MongoDB._lock_loop_id     (0 = None)
  client_loop_id,    \* MongoDB._client_loop_id   (0 = None)
  locks,             \* the asyncio.Lock objects: [locked, waiters, loop], loop being
                     \* the event loop that ran when the object was constructed
  pinged,            \* the object now in `client` has answered a ping
  closed,            \* client objects still referred to on which close() was called
  curLoop,           \* id() of the running event loop
  loopSeq,           \* the running event loop: the first, second, ... of the process
  urlSet,            \* MONGODB_URL is set
  dbNameValid,       \* MONGODB_DB_NAME (or its default) is a name the driver accepts
  coll,              \* the store: collection sensor_readings exists
  docs,              \* the store: its documents, in insertion order
  hasIndex,          \* the store: the index on timestamp exists
  clock,             \* datetime.utcnow()
  nOps,              \* the operations started so far
  running,           \* the task that owns the event loop (0 = none)
  pc,                \* per task: where it is
  op,                \* per task: the operation it runs ("none" when idle)
  arg,               \* per task: insert's document [ts, val]
  lock,              \* per task: ensure_connected's local `lock`
  tclient,           \* per task: the driver object its pending call was issued on
  loc,               \* per task: local values (result.inserted_id, stats, count)
  exc,               \* per task: the exception in flight ("none" if none)
  outs,              \* per task: outcomes of the store-call attempts of this operation
  last               \* the operation the latest step ended, if it ended one:
                     \* [task, op, outs, res]

classVars == <<client, database, connection_lock, lock_loop_id, client_loop_id>>
driverVars == <<locks, pinged, closed>>
envVars == <<curLoop, loopSeq, urlSet, dbNameValid, clock, nOps>>
storeVars == <<coll, docs, hasIndex>>
taskVars == <<running, pc, op, arg, lock, tclient, loc, exc, outs, last>>
vars == <<classVars, driverVars, envVars, storeVars, taskVars>>

\* ------------------------------------------------------------- helpers
Set(f, t, v) == [f EXCEPT ![t] = v]

\* asyncio.Lock() constructed while event loop n runs.
NewLock(n) == [locked |-> FALSE, waiters |-> <<>>, loop |-> n]

\* A lock identity no object has yet.
FreeLock == NewLock(0)

NoResult == [kind |-> "none", err |-> "none", val |-> 0]

\* `last` when the latest step ended no operation.
NoLast == [task |-> 0, op |-> "none", outs |-> <<>>, res |-> NoResult]

Returned(v) == [kind |-> "ret", err |-> "none", val |-> v]

Raised(e) == [kind |-> "raise", err |-> e, val |-> 0]

\* What a driver call can do: succeed, or raise RuntimeError("Event loop is
\* closed"), another RuntimeError, or any other Exception.
Outcomes == {"ok", "LoopClosed", "RuntimeError", "Exception"}

\* except RuntimeError as e
IsRuntimeError(e) == e \in {"LoopClosed", "RuntimeError"}

\* Variant of IsLoopClosedError: the message of the error not looked at.
IsLoopClosedErrorAny(e) == TRUE

\* "Event loop is closed" in str(e) or "loop is closed" in str(e).lower()
IsLoopClosedError(e) == e = "LoopClosed"

\* A fresh asyncio.Lock(): an identity no field and no task refers to.
FreshLock ==
  LET used == {connection_lock} \cup {lock[u] : u \in Tasks}
  IN CHOOSE l \in LockIds : l \notin used /\ \A k \in LockIds : k < l => k \in used

\* A fresh AsyncIOMotorClient: an identity no field and no pending call refers to.
FreshClient ==
  LET used == {client, database} \cup {tclient[u] : u \in Tasks}
  IN CHOOSE c \in ClientIds : c \notin used /\ \A k \in ClientIds : k < c => k \in used

\* The closed clients something still refers to.
Prune(S, cl, db, tc) == {x \in S : x = cl \/ x = db \/ \E u \in Tasks : tc[u] = x}

\* cls.client[db_name]: the Database of client c; the driver checks the name
\* when it makes a Database and raises InvalidName for one it refuses (an
\* empty one, or one with a space, a dot, $, / and the like): then no
\* Database is made (-1).
DatabaseOf(c) == IF dbNameValid THEN c ELSE -1

\* if cls.database is not None and cls.client is not None
HasHandle == database # 0 /\ client # 0

\* current_loop.is_closed(): asyncio refuses to close a running loop, so the
\* loop a coroutine runs on is never closed.
LoopIsClosed == FALSE

\* Variant of DifferentLoop: every recorded context taken for a different one.
DifferentLoopAlways == client_loop_id # 0

\* elif cls._client_loop_id is not None and cls._client_loop_id != current_loop_id
DifferentLoop == client_loop_id # 0 /\ client_loop_id # curLoop

\* Variant of FastPath: the fast path never taken.
FastPathNever == FALSE

\* The fast path of ensure_connected returns.
FastPath == HasHandle /\ ~LoopIsClosed /\ ~DifferentLoop

\* if cls._connection_lock is None or cls._lock_loop_id != current_loop_id
NeedNewLock == connection_lock = 0 \/ lock_loop_id # curLoop

\* if cls.database is None or cls.client is None  (after the lock is taken)
NeedsConnect(db, cl) == db = 0 \/ cl = 0

\* asyncio.Lock.acquire takes the lock at once when it is free and nobody waits.
LockIsFree(l) == ~l.locked /\ l.waiters = <<>>

\* The tasks between entering connect() and its return or raise.
ConnectPcs == {"connect", "ping", "listcoll", "mkcoll_ins", "mkcoll_del", "mkindex"}

InConnect == {t \in Tasks : pc[t] \in ConnectPcs}

\* ---------------------------------------------------------------- Init
Init ==
  /\ client = 0 /\ database = 0 /\ connection_lock = 0
  /\ lock_loop_id = 0 /\ client_loop_id = 0
  /\ locks = [l \in LockIds |-> FreeLock]
  /\ pinged = FALSE /\ closed = {}
  /\ curLoop = 1 /\ loopSeq = 1 /\ urlSet \in BOOLEAN /\ dbNameValid \in BOOLEAN
  /\ clock = 0 /\ nOps = 0
  /\ coll = FALSE /\ docs = <<>> /\ hasIndex = FALSE
  /\ running = 0
  /\ pc = [t \in Tasks |-> "idle"]
  /\ op = [t \in Tasks |-> "none"]
  /\ arg = [t \in Tasks |-> 0]
  /\ lock = [t \in Tasks |-> 0]
  /\ tclient = [t \in Tasks |-> 0]
  /\ loc = [t \in Tasks |-> 0]
  /\ exc = [t \in Tasks |-> "none"]
  /\ outs = [t \in Tasks |-> <<>>]
  /\ last = NoLast

\* Task t's reference to the driver object of its pending call becomes c
\* (0: it refers to none), the class fields staying as they are; a closed
\* client nothing refers to any more is gone.
Refer(t, c) ==
  /\ tclient' = Set(tclient, t, c)
  /\ closed' = Prune(closed, client, database, Set(tclient, t, c))

\* The operation of task t ends: it returns or raises to its caller (os:
\* the outcomes of its store-call attempts).
EndOp(t, r, os) ==
  /\ pc' = Set(pc, t, "idle")
  /\ running' = 0
  /\ last' = [task |-> t, op |-> op[t], outs |-> os, res |-> r]
  /\ op' = Set(op, t, "none")
  /\ arg' = Set(arg, t, 0)
  /\ outs' = Set(outs, t, <<>>)
  /\ exc' = Set(exc, t, "none")
  /\ lock' = Set(lock, t, 0)
  /\ loc' = Set(loc, t, 0)

\* The operation of task t ends in a step that leaves the class fields as
\* they are.
Finish(t, r, os) ==
  /\ EndOp(t, r, os)
  /\ Refer(t, 0)

\* --------------------------------------------------- ensure_connected
\* ensure_connected up to its first suspension: the fast path, the lock
\* (_get_connection_lock), `async with lock` and the second check.
EnsureConnected(t) ==
  /\ running = t /\ pc[t] = "ensure"
  /\ IF FastPath
     THEN /\ pc' = Set(pc, t, "ensure_ret")
          /\ lock' = Set(lock, t, 0)
          /\ UNCHANGED <<classVars, driverVars, running>>
     ELSE LET clear == HasHandle
              cl1 == IF clear THEN 0 ELSE client
              db1 == IF clear THEN 0 ELSE database
              closeIt == clear /\ ~LoopIsClosed
              L == IF NeedNewLock THEN FreshLock ELSE connection_lock
              locks1 == IF NeedNewLock THEN [locks EXCEPT ![L] = NewLock(loopSeq)] ELSE locks
          IN /\ client' = cl1 /\ database' = db1
             /\ client_loop_id' = IF clear THEN 0 ELSE client_loop_id
             /\ pinged' = IF clear THEN FALSE ELSE pinged
             /\ closed' = Prune(IF closeIt THEN closed \cup {client} ELSE closed,
                                cl1, db1, tclient)
             /\ connection_lock' = L
             /\ lock_loop_id' = IF NeedNewLock THEN curLoop ELSE lock_loop_id
             /\ lock' = Set(lock, t, L)
             /\ IF LockIsFree(locks1[L])
                THEN /\ running' = t
                     /\ IF NeedsConnect(db1, cl1)
                        THEN /\ locks' = [locks1 EXCEPT ![L].locked = TRUE]
                             /\ pc' = Set(pc, t, "connect")
                        ELSE /\ locks' = locks1
                             /\ pc' = Set(pc, t, "ensure_ret")
                ELSE /\ locks' = [locks1 EXCEPT ![L].waiters = Append(@, t)]
                     /\ pc' = Set(pc, t, "wait_lock")
                     /\ running' = 0
  /\ last' = NoLast
  /\ UNCHANGED <<envVars, storeVars, op, arg, tclient, loc, exc, outs>>

\* The lock was released and t is its first waiter: t takes it and makes the
\* second check.
LockAcquired(t) ==
  /\ running = 0 /\ pc[t] = "wait_lock"
  /\ LET L == lock[t]
     IN /\ ~locks[L].locked
        /\ locks[L].waiters # <<>>
        /\ Head(locks[L].waiters) = t
        /\ IF NeedsConnect(database, client)
           THEN /\ locks' = [locks EXCEPT ![L].locked = TRUE, ![L].waiters = Tail(@)]
                /\ pc' = Set(pc, t, "connect")
           ELSE /\ locks' = [locks EXCEPT ![L].locked = FALSE, ![L].waiters = Tail(@)]
                /\ pc' = Set(pc, t, "ensure_ret")
  /\ running' = t
  /\ last' = NoLast
  /\ UNCHANGED <<classVars, pinged, closed, envVars, storeVars, op, arg, lock, tclient,
                 loc, exc, outs>>

\* ---------------------------------------------------------------- store
\* The most records one request of seed_test_data may ask for
\* (routes/test_data.py line 113).
SeedLimit == 10000

\* The place of a document without a timestamp in the order of timestamps:
\* the server sorts a missing field before every date. No reading has a
\* timestamp that low: insert_sensor_data stamps with now (0 or later), and
\* seed_test_data goes back from now by less than SeedLimit intervals.
NoTimestamp == -SeedLimit

\* The dummy document connect() inserts to create the collection: it has a
\* created_at and no timestamp and none of the sensor fields.
DummyDoc(i) == [id |-> i, ts |-> NoTimestamp, val |-> 0, dummy |-> TRUE]

SensorDoc(i, d) == [id |-> i, ts |-> d.ts, val |-> d.val, dummy |-> FALSE]

\* A server-assigned ObjectId: differs from every stored one and from every one
\* a task still holds.
FreshId ==
  LET used == {docs[k].id : k \in 1..Len(docs)}
                \cup {loc[u] : u \in {v \in Tasks : pc[v] = "mkcoll_del"}}
  IN CHOOSE i \in 1..(Len(docs) + NumTasks + 1) :
       i \notin used /\ \A k \in 1..(Len(docs) + NumTasks + 1) : k < i => k \in used

\* delete_one({"_id": i})
DeleteOne(ds, i) == SelectSeq(ds, LAMBDA d : d.id # i)

\* Variant of DeleteMany: delete_many({}) deleting nothing.
DeleteManyNothing(ds) == ds

\* delete_many({}): no document is left.
DeleteMany(ds) == <<>>

\* ------------------------------------------------------------- connect
\* Task t goes on to place p; run says whether it keeps the event loop.
Goto(t, p, run) ==
  /\ pc' = Set(pc, t, p)
  /\ running' = IF run THEN t ELSE 0
  /\ last' = NoLast
  /\ UNCHANGED <<op, arg>>

\* connect() raises: the `except Exception: raise` of its try block, or the
\* ValueError before it.
ConnectRaise(t, e) ==
  /\ exc' = Set(exc, t, e)
  /\ Refer(t, 0)
  /\ Goto(t, "connect_ret", TRUE)

\* Variant of ConnectDone: the error of create_index raised by connect().
ConnectDoneRaising(t) == ConnectRaise(t, "Exception")

\* connect() returns normally.
ConnectDone(t) ==
  /\ exc' = Set(exc, t, "none")
  /\ Refer(t, 0)
  /\ Goto(t, "connect_ret", TRUE)

\* The next driver call of connect() is issued on cls.database and awaited.
ConnectAwait(t, p) ==
  /\ Refer(t, database)
  /\ Goto(t, p, FALSE)
  /\ UNCHANGED exc

\* await cls.database[collection_name].create_index("timestamp"), inside its
\* own try: with database None the TypeError is swallowed like any failure.
CreateIndex(t) ==
  IF database = 0 THEN ConnectDone(t) ELSE ConnectAwait(t, "mkindex")

\* Variant of UrlMissing: connect() going on without an address.
UrlMissingIgnored == FALSE

\* if not mongodb_url
UrlMissing == ~urlSet

\* connect() from its call to the await of the ping. Lines 68-70 are
\* outside the try: when cls.client[db_name] raises (line 69), connect()
\* ends there with the new client stored (line 68), the database reference
\* as lines 60-66 left it and the recorded loop id not updated.
Connect(t) ==
  /\ running = t /\ pc[t] = "connect"
  /\ IF UrlMissing
     THEN /\ ConnectRaise(t, "ValueError")
          /\ UNCHANGED <<classVars, locks, pinged>>
     ELSE LET closeOld == client # 0 /\ client_loop_id # curLoop
              c == FreshClient
              db == DatabaseOf(c)
              oldDb == IF closeOld THEN 0 ELSE database
          IN /\ client' = c
             /\ pinged' = FALSE
             /\ IF db < 0
                THEN /\ database' = oldDb
                     /\ UNCHANGED client_loop_id
                     /\ closed' = Prune(IF closeOld THEN closed \cup {client} ELSE closed,
                                        c, oldDb, Set(tclient, t, 0))
                     /\ tclient' = Set(tclient, t, 0)
                     /\ exc' = Set(exc, t, "InvalidName")
                     /\ Goto(t, "connect_ret", TRUE)
                ELSE /\ database' = db
                     /\ client_loop_id' = curLoop
                     /\ closed' = Prune(IF closeOld THEN closed \cup {client} ELSE closed,
                                        c, db, Set(tclient, t, c))
                     /\ tclient' = Set(tclient, t, c)
                     /\ Goto(t, "ping", FALSE)
                     /\ UNCHANGED exc
             /\ UNCHANGED <<connection_lock, lock_loop_id, locks>>
  /\ UNCHANGED <<envVars, storeVars, lock, loc, outs>>

\* await cls.client.admin.command('ping') ends with outcome o; on success
\* connect goes on to cls.database.list_collection_names().
PingDone(t, o) ==
  /\ running = 0 /\ pc[t] = "ping"
  /\ IF o # "ok"
     THEN ConnectRaise(t, o) /\ UNCHANGED pinged
     ELSE /\ pinged' = (pinged \/ tclient[t] = client)
          /\ IF database = 0
             THEN ConnectRaise(t, "AttributeError")
             ELSE ConnectAwait(t, "listcoll")
  /\ UNCHANGED <<classVars, locks, envVars, storeVars, lock, loc, outs>>

\* list_collection_names() ends; then the dummy insert_one when the
\* collection is missing, else create_index.
ListCollDone(t, o) ==
  /\ running = 0 /\ pc[t] = "listcoll"
  /\ IF o # "ok"
     THEN ConnectRaise(t, o)
     ELSE IF ~coll
          THEN IF database = 0
               THEN ConnectRaise(t, "TypeError")
               ELSE ConnectAwait(t, "mkcoll_ins")
          ELSE CreateIndex(t)
  /\ UNCHANGED <<classVars, locks, pinged, envVars, storeVars, lock, loc, outs>>

\* insert_one(dummy_doc) ends; then delete_one of the dummy.
DummyInsertDone(t, o) ==
  /\ running = 0 /\ pc[t] = "mkcoll_ins"
  /\ IF o # "ok"
     THEN ConnectRaise(t, o) /\ UNCHANGED <<loc, storeVars>>
     ELSE /\ docs' = Append(docs, DummyDoc(FreshId))
          /\ coll' = TRUE
          /\ UNCHANGED hasIndex
          /\ IF database = 0
             THEN ConnectRaise(t, "TypeError") /\ UNCHANGED loc
             ELSE ConnectAwait(t, "mkcoll_del") /\ loc' = Set(loc, t, FreshId)
  /\ UNCHANGED <<classVars, locks, pinged, envVars, lock, outs>>

\* delete_one of the dummy ends; then create_index.
DummyDeleteDone(t, o) ==
  /\ running = 0 /\ pc[t] = "mkcoll_del"
  /\ loc' = Set(loc, t, 0)
  /\ IF o # "ok"
     THEN ConnectRaise(t, o) /\ UNCHANGED storeVars
     ELSE /\ docs' = DeleteOne(docs, loc[t])
          /\ UNCHANGED <<coll, hasIndex>>
          /\ CreateIndex(t)
  /\ UNCHANGED <<classVars, locks, pinged, envVars, lock, outs>>

\* create_index ends: a failure is logged and swallowed; connect() returns.
IndexDone(t, o) ==
  /\ running = 0 /\ pc[t] = "mkindex"
  /\ IF o = "ok"
     THEN coll' = TRUE /\ hasIndex' = TRUE
     ELSE UNCHANGED <<coll, hasIndex>>
  /\ ConnectDone(t)
  /\ UNCHANGED <<classVars, locks, pinged, envVars, docs, lock, loc, outs>>

\* Variant of Released: leaving `async with lock` without releasing the lock.
ReleasedNot(L) == locks

\* The exit of `async with lock`, normal or by an exception: lock L released.
Released(L) == [locks EXCEPT ![L].locked = FALSE]

\* connect() has returned or raised: lifespan's startup call ends there;
\* inside ensure_connected `async with lock` releases the lock and the
\* result goes on to ensure_connected's caller.
ConnectReturn(t) ==
  /\ running = t /\ pc[t] = "connect_ret"
  /\ IF op[t] = "startup"
     THEN /\ Finish(t, IF exc[t] = "none" THEN Returned(0) ELSE Raised(exc[t]), <<>>)
          /\ UNCHANGED locks
     ELSE /\ locks' = Released(lock[t])
          /\ Goto(t, "ensure_ret", TRUE)
          /\ UNCHANGED <<exc, lock, tclient, closed, loc, outs>>
  /\ UNCHANGED <<classVars, pinged, envVars, storeVars>>

\* disconnect(): close() may fail (logged); the fields are cleared only when
\* a client is set.
Disconnect(t, closeOk) ==
  /\ running = t /\ pc[t] = "disconnect"
  /\ IF client # 0
     THEN /\ client' = 0 /\ database' = 0 /\ connection_lock' = 0
          /\ lock_loop_id' = 0 /\ client_loop_id' = 0
          /\ pinged' = FALSE
          /\ closed' = Prune(closed \cup {client}, 0, 0, Set(tclient, t, 0))
     ELSE /\ UNCHANGED <<classVars, pinged>>
          /\ closed' = Prune(closed, client, database, Set(tclient, t, 0))
  /\ tclient' = Set(tclient, t, 0)
  /\ EndOp(t, Returned(0), <<>>)
  /\ UNCHANGED <<locks, envVars, storeVars>>

\* ----------------------------------------------------- store operations
StoreOps == {"insert", "list", "clear"}

\* str(ObjectId): a string, told apart from the ObjectId it renders.
OidStr(i) == <<"str", i>>

\* Variant of ForceInvalidate: the invalidation done as disconnect() does it,
\* closing the client and dropping the lock.
ForceInvalidateAsDisconnect(t) ==
  /\ client' = 0 /\ database' = 0 /\ client_loop_id' = 0
  /\ pinged' = FALSE
  /\ closed' = closed \cup {client}
  /\ tclient' = Set(tclient, t, 0)
  /\ connection_lock' = 0 /\ lock_loop_id' = 0
  /\ UNCHANGED locks

\* The three lines the handler of task t runs on a stale-context error:
\* cls.client = None; cls.database = None; cls._client_loop_id = None.
\* The failed call of t is over: t refers to its driver object no more.
ForceInvalidate(t) ==
  /\ client' = 0 /\ database' = 0 /\ client_loop_id' = 0
  /\ pinged' = FALSE
  /\ tclient' = Set(tclient, t, 0)
  /\ closed' = Prune(closed, 0, 0, Set(tclient, t, 0))
  /\ UNCHANGED <<connection_lock, lock_loop_id, locks>>

\* Variant of ShouldRetry: a second stale-context failure retried as well.
ShouldRetryAgain(o, n) == n <= 1 /\ IsRuntimeError(o) /\ IsLoopClosedError(o)

\* The handler of a failed store call reconnects and retries: only for a
\* RuntimeError that says the loop is closed, raised by the first attempt
\* (n attempts were made before the failing one).
ShouldRetry(o, n) == n = 0 /\ IsRuntimeError(o) /\ IsLoopClosedError(o)

\* The dict get_database_info returns when its queries fail.
ZeroSnapshot ==
  [database_name |-> IF database # 0 THEN "db" ELSE "unknown",
   document_count |-> 0, exists |-> FALSE, indexes |-> <<>>]

\* What a failure e of a statistics query (or of reading cls.database) does to
\* get_database_info, n attempts having failed before: "retry", "raise" or
\* "zero" (the zero snapshot is returned).
StatsOnFailure(e, n) ==
  IF n = 0
  THEN IF IsRuntimeError(e)
       THEN IF IsLoopClosedError(e) THEN "retry" ELSE "raise"
       ELSE "zero"
  ELSE "zero"

\* Variant of SortedDesc: the documents in insertion order, not sorted.
Unsorted(ds) == {ds}

\* find().sort("timestamp", -1): the documents by timestamp descending; the
\* order of documents with equal timestamps is the server's choice.
SortedDesc(ds) ==
  {[k \in 1..Len(ds) |-> ds[p[k]]] :
     p \in {q \in [1..Len(ds) -> 1..Len(ds)] :
              /\ \A i, j \in 1..Len(ds) : i # j => q[i] # q[j]
              /\ \A i, j \in 1..Len(ds) : i < j => ds[q[i]].ts >= ds[q[j]].ts}}

\* SensorDataOutput(**doc) after doc["_id"] = str(doc["_id"]).
Translate(d) == [id |-> OidStr(d.id), ts |-> d.ts, val |-> d.val]

\* Variant of Invalid: every document accepted by the output model.
InvalidNever(d) == FALSE

\* A document the output model rejects: the sensor fields are required.
Invalid(d) == d.dummy

\* list_indexes().to_list(): none for a missing collection, else the _id
\* index and the timestamp index if it was created.
IndexList ==
  IF ~coll THEN <<>>
  ELSE IF hasIndex THEN <<"_id_", "timestamp_1">> ELSE <<"_id_">>

\* Whether bool(cls.database) raises, in `cls.database.name if cls.database
\* else "unknown"` (lines 317, 328): None is false and raises nothing; a
\* database object is true under a driver that leaves truth testing alone,
\* and raises NotImplementedError under one that refuses it (PyMongo 4 and
\* the Motor built on it). No version of the driver is pinned.
BoolRefused == IF database = 0 THEN {FALSE} ELSE BOOLEAN

\* A statistics query of get_database_info failed with e (or cls.database
\* was None when it was read).
StatsFailed(t, e) ==
  CASE StatsOnFailure(e, Len(outs[t])) = "retry" ->
         /\ ForceInvalidate(t)
         /\ Goto(t, "ensure", TRUE)
         /\ loc' = Set(loc, t, 0)
         /\ outs' = Set(outs, t, Append(outs[t], e))
         /\ UNCHANGED <<exc, lock>>
    [] StatsOnFailure(e, Len(outs[t])) = "raise" ->
         /\ Finish(t, Raised(e), Append(outs[t], e))
         /\ UNCHANGED <<classVars, locks, pinged>>
    [] StatsOnFailure(e, Len(outs[t])) = "zero" ->
         /\ \E refused \in BoolRefused :
              Finish(t, IF refused THEN Raised("NotImplementedError")
                                  ELSE Returned(ZeroSnapshot),
                     Append(outs[t], e))
         /\ UNCHANGED <<classVars, locks, pinged>>

\* ensure_connected has returned or raised to the operation that called it.
\* On a return the operation reads cls.database and issues its store call;
\* with cls.database None the attribute access fails inside the try block:
\* get_database_info handles it as a failed query, the others raise it.
EnsureReturn(t) ==
  /\ running = t /\ pc[t] = "ensure_ret"
  /\ IF exc[t] # "none"
     THEN Finish(t, Raised(exc[t]), outs[t])
     ELSE IF op[t] = "ensure"
          THEN Finish(t, Returned(0), outs[t])
          ELSE IF database = 0
               THEN IF op[t] = "stats"
                    THEN StatsFailed(t, "AttributeError")
                    ELSE Finish(t, Raised("AttributeError"), outs[t])
               ELSE /\ arg' = IF op[t] = "insert" /\ outs[t] = <<>>
                              THEN Set(arg, t, [ts |-> clock, val |-> arg[t].val])
                              ELSE arg
                    /\ Refer(t, database)
                    /\ pc' = Set(pc, t, IF op[t] = "stats" THEN "collStats" ELSE "store")
                    /\ running' = 0
                    /\ last' = NoLast
                    /\ UNCHANGED <<op, exc, lock, loc, outs>>
  /\ UNCHANGED <<classVars, locks, pinged, envVars, storeVars>>

\* The except handler of a store operation whose call failed with e.
StoreFailed(t, e) ==
  IF ShouldRetry(e, Len(outs[t]))
  THEN /\ ForceInvalidate(t)
       /\ Goto(t, "ensure", TRUE)
       /\ outs' = Set(outs, t, Append(outs[t], e))
       /\ UNCHANGED <<exc, lock, loc>>
  ELSE /\ Finish(t, Raised(e), Append(outs[t], e))
       /\ UNCHANGED <<classVars, locks, pinged>>

\* insert_one / find().sort().to_list() / delete_many of insert_sensor_data,
\* get_all_sensor_data and clear_all_data ends with outcome o.
StoreDone(t, o) ==
  /\ running = 0 /\ pc[t] = "store" /\ op[t] \in StoreOps
  /\ IF o # "ok"
     THEN StoreFailed(t, o) /\ UNCHANGED storeVars
     ELSE /\ UNCHANGED <<classVars, locks, pinged>>
          /\ CASE op[t] = "insert" ->
                    /\ docs' = Append(docs, SensorDoc(FreshId, arg[t]))
                    /\ coll' = TRUE
                    /\ UNCHANGED hasIndex
                    /\ Finish(t, Returned(OidStr(FreshId)), Append(outs[t], o))
               [] op[t] = "list" ->
                    /\ UNCHANGED storeVars
                    /\ \E ds \in SortedDesc(docs) :
                         IF \E k \in 1..Len(ds) : Invalid(ds[k])
                         THEN Finish(t, Raised("ValidationError"), Append(outs[t], o))
                         ELSE Finish(t, Returned([k \in 1..Len(ds) |-> Translate(ds[k])]),
                                     Append(outs[t], o))
               [] op[t] = "clear" ->
                    /\ docs' = DeleteMany(docs)
                    /\ UNCHANGED <<coll, hasIndex>>
                    /\ Finish(t, Returned(Len(docs) - Len(DeleteMany(docs))),
                              Append(outs[t], o))
  /\ UNCHANGED envVars

\* One statistics query ended well: the next one is issued on cls.database.
StatsNext(t, v, next) ==
  IF database = 0
  THEN StatsFailed(t, "AttributeError")
  ELSE /\ loc' = Set(loc, t, v)
       /\ Refer(t, database)
       /\ Goto(t, next, FALSE)
       /\ UNCHANGED <<classVars, locks, pinged, exc, lock, outs>>

\* command("collStats", "sensor_readings") ends; size is 0 exactly when no
\* document is stored.
CollStatsDone(t, o) ==
  /\ running = 0 /\ pc[t] = "collStats"
  /\ IF o # "ok"
     THEN StatsFailed(t, o)
     ELSE StatsNext(t, [size |-> Len(docs), count |-> 0], "count")
  /\ UNCHANGED <<envVars, storeVars>>

\* count_documents({}) ends.
CountDone(t, o) ==
  /\ running = 0 /\ pc[t] = "count"
  /\ IF o # "ok"
     THEN StatsFailed(t, o)
     ELSE StatsNext(t, [size |-> loc[t].size, count |-> Len(docs)], "listidx")
  /\ UNCHANGED <<envVars, storeVars>>

\* list_indexes().to_list() ends: the snapshot is returned.
ListIdxDone(t, o) ==
  /\ running = 0 /\ pc[t] = "listidx"
  /\ IF o # "ok"
     THEN StatsFailed(t, o)
     ELSE /\ Finish(t, Returned([database_name |-> "db",
                                 document_count |-> loc[t].count,
                                 exists |-> (loc[t].count > 0 \/ loc[t].size > 0),
                                 indexes |-> IndexList]),
                    Append(outs[t], "ok"))
          /\ UNCHANGED <<classVars, locks, pinged>>
  /\ UNCHANGED <<envVars, storeVars>>

\* -------------------------------------------- routes/test_data.py: seed
\* The largest num_records the query parameters allow (lines 96-97, 111):
\* hours = 168, interval_minutes = 1.
SeedMost == (168 * 60) \div 1

\* The numbers of records the requests of the model ask for: a few, and the
\* largest one.
SeedCounts == (1..MaxSeed) \cup {SeedMost}

\* The answer of seed_test_data to a failure: HTTPException with a status,
\* raised for too many records (status 400, lines 113-117) or in place of an
\* exception of the body (status 500, lines 163-164; cause: that exception).
HttpError(status, cause) ==
  [kind |-> "raise", err |-> "HTTPException", val |-> [status |-> status, cause |-> cause]]

\* seed_test_data up to its loop: num_records (arg.val) is fixed by the
\* query parameters; more than SeedLimit records are refused before the
\* handle is read; otherwise now = datetime.utcnow().
SeedBegin(t) ==
  /\ running = t /\ pc[t] = "seed_begin"
  /\ IF arg[t].val > SeedLimit
     THEN /\ Finish(t, HttpError(400, "none"), outs[t])
          /\ UNCHANGED <<classVars, locks, pinged, envVars, storeVars>>
     ELSE /\ arg' = Set(arg, t, [ts |-> clock, val |-> arg[t].val])
          /\ loc' = Set(loc, t, 0)
          /\ pc' = Set(pc, t, "seed")
          /\ last' = NoLast
          /\ UNCHANGED <<classVars, driverVars, envVars, storeVars, running, op, lock,
                         tclient, exc, outs>>

\* record_time of the record after i inserted ones, of n, the handler having
\* started at now: the records are one interval apart and the last is at now.
RecordTime(now, n, i) == now - (n - i - 1)

\* One turn of the loop of seed_test_data: the handler reads MongoDB.database
\* itself and issues insert_one on it; with no database the attribute access
\* fails with AttributeError, which the handler turns into its answer of
\* status 500 (lines 163-164).
Seed(t) ==
  /\ running = t /\ pc[t] = "seed"
  /\ IF database = 0
     THEN Finish(t, HttpError(500, "AttributeError"), outs[t])
     ELSE /\ Refer(t, database)
          /\ pc' = Set(pc, t, "seed_ins")
          /\ running' = 0
          /\ last' = NoLast
          /\ UNCHANGED <<op, arg, exc, lock, loc, outs>>
  /\ UNCHANGED <<classVars, locks, pinged, envVars, storeVars>>

\* insert_one of seed_test_data ends with outcome o: a failure ends the
\* handler with its answer of status 500 (lines 163-164), the records
\* inserted so far staying; after the last record the count is returned.
SeedInsertDone(t, o) ==
  /\ running = 0 /\ pc[t] = "seed_ins"
  /\ IF o # "ok"
     THEN Finish(t, HttpError(500, o), outs[t]) /\ UNCHANGED storeVars
     ELSE /\ docs' = Append(docs, SensorDoc(FreshId,
                        [ts |-> RecordTime(arg[t].ts, arg[t].val, loc[t]), val |-> 1]))
          /\ coll' = TRUE
          /\ UNCHANGED hasIndex
          /\ IF loc[t] + 1 = arg[t].val
             THEN Finish(t, Returned(loc[t] + 1), outs[t])
             ELSE /\ loc' = Set(loc, t, loc[t] + 1)
                  /\ Refer(t, 0)
                  /\ pc' = Set(pc, t, "seed")
                  /\ running' = t
                  /\ last' = NoLast
                  /\ UNCHANGED <<op, arg, exc, lock, outs>>
  /\ UNCHANGED <<classVars, locks, pinged, envVars>>

\* ------------------------------------------------------- cancellation
\* The places where a task is suspended in an await.
AwaitPcs ==
  (ConnectPcs \ {"connect"}) \cup {"wait_lock", "store", "collStats", "count", "listidx",
                                   "seed_ins"}

\* The store after it has executed the driver call task t is suspended in.
PendingEffect(t) ==
  LET same == [docs |-> docs, coll |-> coll, hasIndex |-> hasIndex]
  IN CASE pc[t] = "mkcoll_ins" ->
            [same EXCEPT !.docs = Append(docs, DummyDoc(FreshId)), !.coll = TRUE]
       [] pc[t] = "mkcoll_del" -> [same EXCEPT !.docs = DeleteOne(docs, loc[t])]
       [] pc[t] = "mkindex" -> [same EXCEPT !.coll = TRUE, !.hasIndex = TRUE]
       [] pc[t] = "store" /\ op[t] = "insert" ->
            [same EXCEPT !.docs = Append(docs, SensorDoc(FreshId, arg[t])), !.coll = TRUE]
       [] pc[t] = "store" /\ op[t] = "clear" -> [same EXCEPT !.docs = DeleteMany(docs)]
       [] pc[t] = "seed_ins" ->
            [same EXCEPT !.docs = Append(docs, SensorDoc(FreshId,
                             [ts |-> RecordTime(arg[t].ts, arg[t].val, loc[t]), val |-> 1])),
                         !.coll = TRUE]
       [] OTHER -> same

\* The task t, suspended in an await, is cancelled (its request, or the
\* lifespan of the application inside its await of connect()):
\* CancelledError is raised at the await. It is no Exception, so no handler
\* of connect(), of the operations or of the routes catches it, and what
\* connect() has stored stays; inside connect() under ensure_connected
\* `async with lock` releases the lock on the way out, a task waiting for
\* the lock leaves its queue. The store may or may not have executed the
\* pending driver call (done).
Cancel(t) ==
  /\ running = 0 /\ pc[t] \in AwaitPcs
  /\ locks' = IF pc[t] \in ConnectPcs /\ op[t] # "startup"
              THEN Released(lock[t])
              ELSE IF pc[t] = "wait_lock"
                   THEN [locks EXCEPT ![lock[t]].waiters = SelectSeq(@, LAMBDA u : u # t)]
                   ELSE locks
  /\ \E done \in BOOLEAN :
       LET after == PendingEffect(t)
       IN IF done
          THEN docs' = after.docs /\ coll' = after.coll /\ hasIndex' = after.hasIndex
          ELSE UNCHANGED storeVars
  /\ Finish(t, Raised("CancelledError"), outs[t])
  /\ UNCHANGED <<classVars, pinged, envVars>>

\* ------------------------------------------------- tasks and the world
RequestOps == {"ensure", "insert", "list", "clear", "stats"}

LifespanOps == {"startup", "disconnect"}

\* Where an operation starts: the store operations and ensure_connected at
\* ensure_connected's first line, lifespan's startup at connect().
Entry(o) ==
  CASE o = "startup" -> "connect"
    [] o = "disconnect" -> "disconnect"
    [] o = "seed" -> "seed_begin"
    [] OTHER -> "ensure"

\* Inserts that have not ended yet.
PendingInserts == Cardinality({u \in Tasks : op[u] = "insert"})

\* lifespan is one coroutine (main.py): its connect() and its disconnect()
\* never overlap each other.
LifespanIdle == \A u \in Tasks : op[u] \notin LifespanOps

\* The event loop starts task t on operation o (insert: of reading r; seed:
\* of r records). cap bounds the stored documents (a seed request that is
\* refused stores none), budget the operations started.
Start(t, o, r, cap, budget) ==
  /\ running = 0 /\ pc[t] = "idle"
  /\ nOps < budget
  /\ o \in LifespanOps => LifespanIdle
  /\ o = "insert" => Len(docs) + PendingInserts < cap
  /\ (o = "seed" /\ r <= SeedLimit) => Len(docs) + r <= cap
  /\ nOps' = nOps + 1
  /\ op' = Set(op, t, o)
  /\ arg' = Set(arg, t, IF o \in {"insert", "seed"} THEN [ts |-> NoTimestamp, val |-> r]
                       ELSE 0)
  /\ pc' = Set(pc, t, Entry(o))
  /\ running' = t
  /\ last' = NoLast
  /\ UNCHANGED <<classVars, driverVars, curLoop, loopSeq, urlSet, dbNameValid, clock,
                 storeVars, lock,
                 tclient, loc, exc, outs>>

\* The values id() can give for a new event loop: any but that of a loop
\* still alive. The loops that have ended are freed, and their ids may come
\* again, but for the loop the recorded client was used on (the client keeps
\* its loop). A lock no task ever waited for keeps no loop, and where a new
\* loop starts no task has waited for the lock: tasks run one at a time.
FreeLoopIds == {i \in 1..MaxLoops : client # 0 => client_loop_id # i}

\* The process is reused by a later invocation that runs a new event loop,
\* after every task of the previous loop has ended.
NewLoop ==
  /\ running = 0
  /\ \A t \in Tasks : pc[t] = "idle"
  /\ loopSeq < MaxLoops
  /\ loopSeq' = loopSeq + 1
  /\ curLoop' \in FreeLoopIds
  /\ last' = NoLast
  /\ UNCHANGED <<classVars, driverVars, urlSet, dbNameValid, clock, nOps, storeVars, running,
                 pc, op, arg,
                 lock, tclient, loc, exc, outs>>

\* Time passes while no task owns the event loop.
Tick ==
  /\ running = 0
  /\ clock < MaxClock
  /\ clock' = clock + 1
  /\ last' = NoLast
  /\ UNCHANGED <<classVars, driverVars, curLoop, loopSeq, urlSet, dbNameValid, nOps, storeVars,
                 running,
                 pc, op, arg, lock, tclient, loc, exc, outs>>

\* The driver calls of connect() end, each with an outcome of O.
ConnectCalls(t, O) ==
  \/ \E o \in O : PingDone(t, o)
  \/ \E o \in O : ListCollDone(t, o)
  \/ \E o \in O : DummyInsertDone(t, o)
  \/ \E o \in O : DummyDeleteDone(t, o)
  \/ \E o \in O : IndexDone(t, o)

\* The driver calls of the four store operations end, each with an outcome of O.
StoreCalls(t, O) ==
  \/ \E o \in O : StoreDone(t, o)
  \/ \E o \in O : CollStatsDone(t, o)
  \/ \E o \in O : CountDone(t, o)
  \/ \E o \in O : ListIdxDone(t, o)

\* Concurrent first use: every task calls ensure_connected on one event loop,
\* the address is configured and the driver calls succeed.
InitFirstUse == Init /\ urlSet /\ dbNameValid

NextFirstUse ==
  \/ \E t \in Tasks : Start(t, "ensure", 1, 0, MaxOps)
  \/ \E t \in Tasks : EnsureConnected(t)
  \/ \E t \in Tasks : Connect(t)
  \/ \E t \in Tasks : ConnectCalls(t, {"ok"})
  \/ \E t \in Tasks : ConnectReturn(t)
  \/ \E t \in Tasks : EnsureReturn(t)

SpecFirstUse == InitFirstUse /\ [][NextFirstUse]_vars

\* One task at a time: requests and lifespan calls one after the other, on
\* one event loop after the other, the driver calls failing at will.
NextSeq ==
  \/ \E o \in RequestOps \cup LifespanOps, r \in Readings : Start(1, o, r, SeqDocs, SeqOps)
  \/ EnsureConnected(1)
  \/ Connect(1)
  \/ ConnectCalls(1, Outcomes)
  \/ ConnectReturn(1)
  \/ EnsureReturn(1)
  \/ StoreCalls(1, Outcomes)
  \/ \E closeOk \in BOOLEAN : Disconnect(1, closeOk)
  \/ NewLoop
  \/ Tick

SpecSeq == Init /\ [][NextSeq]_vars

\* The requests of the test-data routes and of the sensor routes and
\* lifespan's calls, one after the other on one event loop; startup may not
\* have run before the first request.
SeedRouteOps == {"seed", "insert", "list"}

NextSeed ==
  \/ \E o \in (SeedRouteOps \ {"seed"}) \cup LifespanOps, r \in 1..MaxSeed :
       Start(1, o, r, SeedDocs, SeedOps)
  \/ \E r \in SeedCounts : Start(1, "seed", r, SeedDocs, SeedOps)
  \/ SeedBegin(1)
  \/ Seed(1)
  \/ \E o \in Outcomes : SeedInsertDone(1, o)
  \/ EnsureConnected(1)
  \/ Connect(1)
  \/ ConnectCalls(1, Outcomes)
  \/ ConnectReturn(1)
  \/ EnsureReturn(1)
  \/ \E o \in Outcomes : StoreDone(1, o)
  \/ \E closeOk \in BOOLEAN : Disconnect(1, closeOk)
  \/ Tick

SpecSeed == Init /\ [][NextSeed]_vars

\* The contents the store may have when the process starts: up to MaxStored
\* documents written by earlier runs (insert_sensor_data, seed_test_data) in
\* any order of timestamps, or dummy documents a failed connect() left.
StoreContents ==
  UNION {{[k \in 1..n |-> IF f[k] = NoTimestamp THEN DummyDoc(k)
                          ELSE SensorDoc(k, [ts |-> f[k], val |-> 1])] :
            f \in [1..n -> {NoTimestamp} \cup (0..MaxTs)]} : n \in 0..MaxStored}

\* A process that starts on a store earlier runs have left, the address
\* configured: a collection that holds documents exists, and an index is on
\* an existing collection only; a collection may exist without documents
\* (clear_all_data) and without the index (create_index failed, lines
\* 101-102, or the documents came from seed_test_data before any connect()).
InitStored ==
  /\ client = 0 /\ database = 0 /\ connection_lock = 0
  /\ lock_loop_id = 0 /\ client_loop_id = 0
  /\ locks = [l \in LockIds |-> FreeLock]
  /\ pinged = FALSE /\ closed = {}
  /\ curLoop = 1 /\ loopSeq = 1 /\ urlSet = TRUE /\ dbNameValid = TRUE
  /\ clock = 0 /\ nOps = 0
  /\ docs \in StoreContents
  /\ coll \in (IF docs = <<>> THEN BOOLEAN ELSE {TRUE})
  /\ hasIndex \in (IF coll THEN BOOLEAN ELSE {FALSE})
  /\ running = 0
  /\ pc = [t \in Tasks |-> "idle"]
  /\ op = [t \in Tasks |-> "none"]
  /\ arg = [t \in Tasks |-> 0]
  /\ lock = [t \in Tasks |-> 0]
  /\ tclient = [t \in Tasks |-> 0]
  /\ loc = [t \in Tasks |-> 0]
  /\ exc = [t \in Tasks |-> "none"]
  /\ outs = [t \in Tasks |-> <<>>]
  /\ last = NoLast

\* The four store operations one after the other on a store with some
\* content: the connect sequence succeeds, a store call succeeds or fails
\* with the stale-context error.
NextStored ==
  \/ \E o \in StoreOps \cup {"stats"}, r \in 1..StoreReadings :
       Start(1, o, r, MaxStored + 1, StoreOpsBudget)
  \/ EnsureConnected(1)
  \/ Connect(1)
  \/ ConnectCalls(1, {"ok"})
  \/ ConnectReturn(1)
  \/ EnsureReturn(1)
  \/ StoreCalls(1, {"ok", "LoopClosed"})
  \/ Tick

SpecStored == InitStored /\ [][NextStored]_vars

\* Concurrent requests that may be cancelled, and lifespan's calls, on one
\* event loop: the connect sequence succeeds or fails, a store call succeeds
\* or fails with the stale-context error.
LiveRequestOps == {"ensure", "clear"}

\* What task t can do once started, but for its cancellation.
TaskStep(t) ==
  \/ EnsureConnected(t)
  \/ LockAcquired(t)
  \/ Connect(t)
  \/ ConnectCalls(t, {"ok", "Exception"})
  \/ ConnectReturn(t)
  \/ EnsureReturn(t)
  \/ \E o \in {"ok", "LoopClosed"} : StoreDone(t, o)
  \/ \E closeOk \in BOOLEAN : Disconnect(t, closeOk)

NextLive ==
  \/ \E t \in Tasks, o \in LiveRequestOps \cup LifespanOps : Start(t, o, 1, ConcDocs, LiveOps)
  \/ \E t \in Tasks : TaskStep(t)
  \/ \E t \in Tasks : Cancel(t)

\* Every driver call ends and the event loop resumes every ready task.
Fairness == \A t \in Tasks : WF_vars(TaskStep(t))

SpecLive == Init /\ [][NextLive]_vars /\ Fairness

\* Concurrent tasks on one event loop: requests, and lifespan's connect()
\* and disconnect() at any time, the driver calls failing at will.
Next ==
  \/ \E t \in Tasks, o \in RequestOps \cup LifespanOps, r \in Readings :
       Start(t, o, r, ConcDocs, MaxOps)
  \/ \E t \in Tasks : EnsureConnected(t)
  \/ \E t \in Tasks : LockAcquired(t)
  \/ \E t \in Tasks : Connect(t)
  \/ \E t \in Tasks : ConnectCalls(t, Outcomes)
  \/ \E t \in Tasks : ConnectReturn(t)
  \/ \E t \in Tasks : EnsureReturn(t)
  \/ \E t \in Tasks : StoreCalls(t, Outcomes)
  \/ \E t \in Tasks, closeOk \in BOOLEAN : Disconnect(t, closeOk)

Spec == Init /\ [][Next]_vars

\* ---------------------------------------------------------------- claims
\* Every call made so far has ended.
AllEnded == nOps > 0 /\ \A t \in Tasks : pc[t] = "idle"

\* A step that stores a new client in MongoDB.client: the start of a connect
\* sequence (connect(), lines 68-70).
ClientCreated == client' # client /\ client' # 0

\* A step that clears or replaces a client MongoDB.client holds (connect()
\* lines 60-70, disconnect() line 121, the invalidation of a store handler).
ClientDropped == client # 0 /\ client' # client

\* C1: when tasks call ensure_connected() concurrently while no handle exists
\* (one event loop, address configured, driver calls succeed), the connect
\* sequence runs exactly once: a client is created only while the manager
\* holds none and a client it holds is never cleared or replaced (so one
\* client is created in all), no caller is left waiting or sees an error, and
\* once every call has ended the handle is present (client and database set),
\* recorded for the current loop, pinged, and the collection and its index
\* are prepared.
C1_FirstUseConnectsOnce ==
  /\ [][ClientCreated => client = 0]_vars
  /\ [][~ClientDropped]_vars
  /\ [](\A t \in Tasks : pc[t] # "wait_lock" /\ exc[t] = "none")
  /\ [](AllEnded => /\ client # 0 /\ database # 0
                    /\ client_loop_id = curLoop
                    /\ pinged /\ coll /\ hasIndex)

\* C1 witness: the call that ran the connect sequence returns with the handle
\* present after the calls the other tasks started meanwhile have ended.
C1_Witness ==
  \E t \in Tasks :
    /\ pc[t] = "ensure_ret" /\ lock[t] # 0 /\ exc[t] = "none"
    /\ nOps = NumTasks
    /\ \A u \in Tasks \ {t} : pc[u] = "idle"
    /\ client # 0 /\ database # 0

\* C2: at most one task is inside the connect sequence, in every
\* interleaving of ensure_connected(), the store operations, disconnect()
\* and the startup call of connect().
C2_AtMostOneInConnect == Cardinality(InConnect) <= 1

\* C3: whenever ensure_connected() returns normally, the handle is present,
\* bound to the current loop, and its connect sequence has passed the ping.
C3_ReturnMeansLiveHandle ==
  \A t \in Tasks :
    (pc[t] = "ensure_ret" /\ exc[t] = "none")
      => (client # 0 /\ database # 0 /\ client_loop_id = curLoop /\ pinged)

\* C4: when the connect sequence fails, the caller that started it sees the
\* failure with the handle absent (client and database both unset).
C4_FailedConnectLeavesNoHandle ==
  (last.op \in {"ensure", "startup"} /\ last.res.kind = "raise")
    => (client = 0 /\ database = 0)

\* C5: in every state a task can observe, the client is set if and only if
\* the database reference is set.
C5_HandleNeverPartial == (client = 0) <=> (database = 0)

\* ensure_connected() starts in task t with a handle recorded for another loop.
ContextChanged(t) ==
  /\ running = t /\ pc[t] = "ensure"
  /\ client # 0 /\ database # 0
  /\ client_loop_id # 0 /\ client_loop_id # curLoop

\* C6: ensure_connected() called with a handle recorded for loop X on a loop
\* Y # X reconnects in full: the old client is dropped, the lock is replaced
\* by a new one created (and taken) on Y, the call goes on into connect(),
\* which creates a new client recorded for Y; and when the call returns
\* normally the handle is present and the client and the lock are both
\* recorded for Y.
C6_ContextChangeReconnects ==
  /\ [][\A t \in Tasks : ContextChanged(t) =>
          /\ client' = 0 /\ database' = 0
          /\ connection_lock' # 0 /\ connection_lock' # connection_lock
          /\ lock_loop_id' = curLoop
          /\ locks'[connection_lock'].loop = loopSeq
          /\ locks'[connection_lock'].locked /\ lock'[t] = connection_lock'
          /\ running' = t /\ pc'[t] = "connect"]_vars
  /\ [][\A t \in Tasks : (running = t /\ pc[t] = "connect" /\ urlSet) =>
          /\ ClientCreated /\ database' # 0
          /\ client_loop_id' = curLoop
          /\ pc'[t] = "ping"]_vars
  /\ [](\A t \in Tasks : (pc[t] = "ensure_ret" /\ lock[t] # 0 /\ exc[t] = "none") =>
          /\ client # 0 /\ database # 0
          /\ client_loop_id = curLoop /\ lock_loop_id = curLoop
          /\ connection_lock = lock[t])

\* ensure_connected() starts in task t with the handle present and recorded
\* for the current loop.
SameContext(t) ==
  /\ running = t /\ pc[t] = "ensure"
  /\ client # 0 /\ database # 0
  /\ client_loop_id = curLoop

\* C7: ensure_connected() called with the handle present and recorded for the
\* current loop returns at once: no driver call is issued, no lock is created
\* or taken, and client, database, lock, both recorded loop ids, the driver
\* objects and the store stay as they are.
C7_FastPathChangesNothing ==
  [][\A t \in Tasks : SameContext(t) =>
       /\ UNCHANGED <<classVars, driverVars, storeVars>>
       /\ tclient' = tclient
       /\ lock'[t] = 0
       /\ running' = t /\ pc'[t] = "ensure_ret" /\ exc'[t] = "none"]_vars

\* C7 witness: a call has returned on the fast path on the second loop.
C7_Witness ==
  /\ pc[1] = "ensure_ret" /\ lock[1] = 0 /\ exc[1] = "none"
  /\ client # 0 /\ database # 0 /\ client_loop_id = curLoop /\ curLoop = 2

\* The store-call attempts task t has made or has in flight.
Attempts(t) == Len(outs[t]) + (IF pc[t] \in {"store", "collStats", "count", "listidx"} THEN 1 ELSE 0)

\* C8: insert whose first store call fails with the stale-context error and
\* whose second succeeds returns the new document's id as a string, after a
\* reconnect (the handle is set and pinged again); insert whose store call
\* fails with that error twice raises that error; no insert makes a third
\* attempt.
C8_InsertRetriesOnce ==
  /\ \A t \in Tasks : op[t] = "insert" => Attempts(t) <= 2
  /\ last.op = "insert" =>
       /\ Len(last.outs) <= 2
       /\ last.outs = <<"LoopClosed", "ok">> =>
            /\ last.res.kind = "ret"
            /\ docs # <<>> /\ last.res.val = OidStr(docs[Len(docs)].id)
            /\ client # 0 /\ database # 0
       /\ last.outs = <<"LoopClosed", "LoopClosed">> =>
            /\ last.res.kind = "raise" /\ last.res.err = "LoopClosed"

\* C8 witness: an insert has raised the stale-context error after two attempts.
C8_Witness ==
  /\ last.op = "insert" /\ last.outs = <<"LoopClosed", "LoopClosed">>
  /\ last.res.kind = "raise"

\* C9: each of the four store operations retries once after a stale-context
\* failure of its first store call, and a failure of the retry is raised to
\* the caller as it is.
C9_SecondFailurePropagates ==
  (last.op \in {"insert", "list", "clear", "stats"} /\ last.outs # <<>>) =>
    /\ Len(last.outs) <= 2
    /\ (Len(last.outs) = 2 /\ last.outs[1] = "LoopClosed" /\ last.outs[2] # "ok") =>
         (last.res.kind = "raise" /\ last.res.err = last.outs[2])

\* C10: a failure of a statistics query of get_database_info, of whatever
\* type, ends the operation with the zero snapshot and never with an error
\* (a first stale-context failure followed by ensure_connected's own failure
\* aside).
C10_StatsFailureGivesZeroSnapshot ==
  LET n == Len(last.outs)
  IN (/\ last.op = "stats" /\ n > 0 /\ last.outs[n] # "ok"
      /\ (n = 2 \/ last.outs[1] # "LoopClosed")) =>
       /\ last.res.kind = "ret"
       /\ last.res.val.document_count = 0
       /\ ~last.res.val.exists
       /\ last.res.val.indexes = <<>>

\* C11: get_database_info called as the very first operation (no handle, no
\* reading ever stored), every driver call succeeding, returns
\* document_count = 0, exists = false and indexes = the empty list.
C11_FirstStatsIsZeroSnapshot ==
  (nOps = 1 /\ last.op = "stats" /\ last.outs = <<"ok">>) =>
    /\ last.res.kind = "ret"
    /\ last.res.val.document_count = 0
    /\ ~last.res.val.exists
    /\ last.res.val.indexes = <<>>

\* C12: after disconnect() returns, whatever the state before and whether or
\* not close() failed, client, database, the lock and both recorded loop ids
\* are all unset, and disconnect() has not raised.
C12_DisconnectClearsAll ==
  last.op = "disconnect" =>
    /\ last.res.kind = "ret"
    /\ client = 0 /\ database = 0
    /\ connection_lock = 0 /\ lock_loop_id = 0
    /\ client_loop_id = 0

\* C13: with no address configured (and hence no handle), ensure_connected()
\* and every store operation end by raising the configuration error; no
\* driver call is ever issued, nothing reaches the store, no store call is
\* attempted, each operation enters ensure_connected() and connect() once
\* (only from its start, never again), and the handle stays absent.
C13_MissingAddressIsFatal ==
  /\ [](~urlSet =>
          /\ client = 0 /\ database = 0 /\ client_loop_id = 0
          /\ ~coll /\ docs = <<>> /\ ~hasIndex
          /\ \A t \in Tasks :
               /\ tclient[t] = 0 /\ outs[t] = <<>>
               /\ pc[t] \in {"idle", "ensure", "connect", "connect_ret", "ensure_ret",
                            "disconnect"}
               /\ pc[t] \in {"connect_ret", "ensure_ret"} => exc[t] = "ValueError"
          /\ last.op \in RequestOps =>
               /\ last.res.kind = "raise" /\ last.res.err = "ValueError"
               /\ last.outs = <<>>)
  /\ [][~urlSet => \A t \in Tasks :
          /\ (pc'[t] = "ensure" /\ pc[t] # "ensure") => pc[t] = "idle"
          /\ (pc'[t] = "connect" /\ pc[t] # "connect") =>
               (pc[t] = "ensure" \/ (pc[t] = "idle" /\ op'[t] = "startup"))]_vars

\* C13 witness: with no address configured an insert has raised the
\* configuration error without a store-call attempt, the handle absent.
C13_Witness ==
  /\ ~urlSet /\ last.op = "insert"
  /\ last.res.kind = "raise" /\ last.res.err = "ValueError" /\ last.outs = <<>>
  /\ client = 0 /\ database = 0

\* The most recently inserted document is a reading and no stored document
\* has a newer timestamp (an equal one is allowed).
LatestIsNewest ==
  /\ docs # <<>> /\ ~docs[Len(docs)].dummy
  /\ \A k \in 1..Len(docs) : docs[k].ts <= docs[Len(docs)].ts

\* The same with every other stored timestamp strictly older (a document
\* without a timestamp has none that could be as new).
LatestIsStrictlyNewest ==
  /\ LatestIsNewest
  /\ \A k \in 1..(Len(docs) - 1) : docs[k].ts < docs[Len(docs)].ts

\* C14: when get_all_sensor_data returns after an insert of this run (the
\* store holds one document more than it can have started with, so its last
\* document is that insert's; no insert in between) and no stored reading
\* has a newer timestamp, equal ones included, the first element it returns
\* is the reading inserted last: its fields, and its id as the string
\* insert_sensor_data returned.
C14_InsertedReadingListedFirst ==
  (/\ last.op = "list" /\ last.res.kind = "ret"
   /\ Len(docs) = MaxStored + 1 /\ LatestIsNewest) =>
    /\ last.res.val # <<>>
    /\ last.res.val[1] = Translate(docs[Len(docs)])

\* The part of C14 that holds: the same with every other stored timestamp
\* strictly older than the inserted reading's.
C14_StrictlyNewestListedFirst ==
  (last.op = "list" /\ last.res.kind = "ret" /\ LatestIsStrictlyNewest) =>
    /\ last.res.val # <<>>
    /\ last.res.val[1] = Translate(docs[Len(docs)])

\* No two stored documents have the same timestamp, and all are readings.
DistinctTimestamps ==
  /\ \A k \in 1..Len(docs) : ~docs[k].dummy
  /\ \A j, k \in 1..Len(docs) : j # k => docs[j].ts # docs[k].ts

\* C15: with pairwise distinct timestamps stored, in whatever order they were
\* inserted, get_all_sensor_data returns every stored reading exactly once,
\* by timestamp strictly descending; also when it returns from the retry
\* after a stale-context error.
C15_ListedNewestFirst ==
  (last.op = "list" /\ last.res.kind = "ret" /\ DistinctTimestamps) =>
    LET out == last.res.val
    IN /\ Len(out) = Len(docs)
       /\ \A k \in 1..Len(docs) : \E j \in 1..Len(out) : out[j] = Translate(docs[k])
       /\ \A i, j \in 1..Len(out) : i < j => out[i].ts > out[j].ts

\* C15 witness: three readings stored with the newest in the middle and the
\* oldest last are listed by the retry after a stale-context error.
C15_Witness ==
  /\ last.op = "list" /\ last.res.kind = "ret"
  /\ last.outs = <<"LoopClosed", "ok">>
  /\ Len(docs) = 3 /\ DistinctTimestamps
  /\ docs[3].ts < docs[1].ts /\ docs[1].ts < docs[2].ts

\* C16: clear_all_data returns the number of documents that were stored and
\* leaves none; as long as nothing is inserted afterwards,
\* get_all_sensor_data returns the empty list and get_database_info reports
\* document_count = 0 and exists = false.
C16_ClearEmptiesStore ==
  /\ [][(last'.op = "clear" /\ last'.res.kind = "ret") =>
          (last'.res.val = Len(docs) /\ docs' = <<>>)]_vars
  /\ []((last.op = "list" /\ last.res.kind = "ret" /\ docs = <<>>) =>
          last.res.val = <<>>)
  /\ []((last.op = "stats" /\ last.res.kind = "ret" /\ docs = <<>>) =>
          (last.res.val.document_count = 0 /\ ~last.res.val.exists))

\* C16 witness: clear_all_data has returned MaxStored, having emptied a
\* store that held as many documents.
C16_Witness ==
  /\ last.op = "clear" /\ last.res.kind = "ret"
  /\ last.res.val = MaxStored /\ docs = <<>> /\ coll

\* C17: when create_index ends, well or with an error, connect() returns
\* normally with the handle present and recorded for the current loop; no
\* error reaches the caller of connect().
C17_IndexFailureNotFatal ==
  /\ [][\A t \in Tasks : (pc[t] = "mkindex" /\ pc'[t] # "mkindex") =>
          /\ pc'[t] = "connect_ret" /\ exc'[t] = "none"
          /\ client' # 0 /\ database' # 0 /\ client_loop_id' = curLoop]_vars
  /\ [][\A t \in Tasks : (pc[t] = "connect_ret" /\ exc[t] = "none" /\ pc'[t] # pc[t]) =>
          /\ client' # 0 /\ database' # 0
          /\ IF op[t] = "startup"
             THEN last'.task = t /\ last'.res.kind = "ret"
             ELSE pc'[t] = "ensure_ret" /\ exc'[t] = "none"]_vars

\* C17 witness: connect() has returned normally with the collection prepared
\* and the index missing: create_index failed.
C17_Witness ==
  /\ pc[1] = "connect_ret" /\ exc[1] = "none"
  /\ coll /\ ~hasIndex /\ pinged
  /\ client # 0 /\ database # 0

\* C18: whenever ensure_connected() takes up the lock (to acquire it or to
\* wait for it), the lock is the manager's current lock, it was constructed
\* while the current loop ran and is recorded for the current loop; a lock
\* recorded for another loop is not taken up but replaced by a fresh, free
\* lock; and a task that waits for or holds a lock obtained it on the loop it
\* runs on.
C18_LockOfCurrentLoop ==
  /\ [][\A t \in Tasks : (lock'[t] # 0 /\ lock'[t] # lock[t]) =>
          /\ lock'[t] = connection_lock'
          /\ locks'[lock'[t]].loop = loopSeq
          /\ lock_loop_id' = curLoop
          /\ (connection_lock # 0 /\ lock_loop_id # curLoop) =>
               /\ connection_lock' # connection_lock
               /\ \A u \in Tasks : lock[u] # connection_lock'
               /\ locks'[connection_lock'].waiters = <<>>
          /\ (connection_lock # 0 /\ lock_loop_id = curLoop) =>
               connection_lock' = connection_lock]_vars
  /\ [](\A t \in Tasks : pc[t] \in ConnectPcs \cup {"wait_lock"} /\ lock[t] # 0 =>
          (lock[t] = connection_lock => lock_loop_id = curLoop))

\* A failure of a store call that is not the stale-context error.
OtherFailure(e) == e \in Outcomes \ {"ok", "LoopClosed"}

\* C19: insert, list and clear whose store call fails with an error that is
\* not the stale-context error make that one attempt only and raise that
\* error, and the failing step leaves client, database, the lock and the
\* recorded loop ids as they were.
C19_OtherFailureNotRecovered ==
  /\ []((last.op \in StoreOps /\ last.outs # <<>> /\ OtherFailure(last.outs[1])) =>
          /\ Len(last.outs) = 1
          /\ last.res.kind = "raise" /\ last.res.err = last.outs[1])
  /\ [][(last'.op \in StoreOps /\ last'.outs # <<>> /\ OtherFailure(last'.outs[1])) =>
          UNCHANGED <<classVars, driverVars, storeVars>>]_vars
  /\ [](\A t \in Tasks : (op[t] \in StoreOps /\ outs[t] # <<>>) => outs[t] = <<"LoopClosed">>)

\* C19 witness: a clear has raised a RuntimeError that does not say the loop
\* is closed after one attempt, the handle still present.
C19_Witness ==
  /\ last.op = "clear" /\ last.outs = <<"RuntimeError">>
  /\ last.res.kind = "raise" /\ last.res.err = "RuntimeError"
  /\ client # 0 /\ database # 0 /\ client_loop_id = curLoop

\* Some stored document lacks the fields of the output model.
SomeUntranslatable == \E k \in 1..Len(docs) : docs[k].dummy

\* C20: get_all_sensor_data returns only when every stored document was
\* translated, and then returns them all; when a document fails translation
\* the step that received the documents ends the operation with the
\* validation error, changing nothing of the manager or the store, and no
\* query is issued after one that succeeded.
C20_ListAllOrNothing ==
  /\ []((last.op = "list" /\ last.res.kind = "ret") =>
          (~SomeUntranslatable /\ Len(last.res.val) = Len(docs)))
  /\ [][(/\ last'.op = "list" /\ SomeUntranslatable
         /\ last'.outs # <<>> /\ last'.outs[Len(last'.outs)] = "ok") =>
          /\ last'.res.kind = "raise" /\ last'.res.err = "ValidationError"
          /\ UNCHANGED <<classVars, driverVars, storeVars>>]_vars
  /\ [](\A t \in Tasks : op[t] = "list" =>
          \A k \in 1..Len(outs[t]) : outs[t][k] # "ok")

\* C20 witness: with a reading and an untranslatable document stored,
\* get_all_sensor_data has raised the validation error after its one query,
\* the handle still present.
C20_Witness ==
  /\ last.op = "list" /\ last.outs = <<"ok">>
  /\ last.res.kind = "raise" /\ last.res.err = "ValidationError"
  /\ Len(docs) = 2 /\ ~docs[1].dummy /\ docs[2].dummy /\ docs[1].ts > docs[2].ts
  /\ client # 0 /\ database # 0

\* The step in which task t's handler takes a stale-context error of its
\* store call: the failed attempt is recorded and the operation goes on.
Invalidates(t) == op'[t] = op[t] /\ Len(outs'[t]) > Len(outs[t])

\* C21: the step in which a store operation handles a stale-context error
\* clears client, database and the client's recorded loop id, calls close on
\* no client, and leaves the lock, the lock's recorded loop id and the lock
\* objects as they were; an operation makes that step at most once.
C21_InvalidationFrame ==
  /\ [][\A t \in Tasks : Invalidates(t) =>
          /\ outs[t] = <<>> /\ outs'[t] = <<"LoopClosed">>
          /\ client' = 0 /\ database' = 0 /\ client_loop_id' = 0
          /\ closed' \subseteq closed
          /\ UNCHANGED <<connection_lock, lock_loop_id, locks>>]_vars
  /\ [](\A t \in Tasks : Len(outs[t]) <= 1)

\* C21 witness: clear_all_data has just invalidated a handle of the current
\* loop after a stale-context error: the handle is gone, nothing was closed,
\* the lock is still there.
C21_Witness ==
  /\ op[1] = "clear" /\ pc[1] = "ensure" /\ outs[1] = <<"LoopClosed">>
  /\ client = 0 /\ database = 0 /\ client_loop_id = 0
  /\ closed = {} /\ connection_lock # 0 /\ lock_loop_id = curLoop

\* A request handler is at a place where it reads MongoDB.database itself,
\* outside the store operations.
ReadsHandleDirectly(t) == pc[t] = "seed"

\* C22: no request handler reads the handle itself; whenever a handler
\* dereferences the database reference, the reference is set.
C22_HandlersGoThroughEnsure ==
  \A t \in Tasks : ReadsHandleDirectly(t) => database # 0

\* The errors Python raises when None is dereferenced: cls.database.x
\* (AttributeError) and cls.database[name] (TypeError) with cls.database None.
NoneErrors == {"AttributeError", "TypeError"}

\* A step in which some task dereferences the database reference while it
\* is None: the error starts its way out of connect() (lines 74-91, 104-106);
\* or connect() goes from the check of the collection to its end without the
\* create_index call, the TypeError of cls.database[collection_name] (line
\* 99) being swallowed (lines 101-102); or the error arises in the step that
\* ends an operation, as it is or as the cause of a handler's answer; or it
\* is the failure a statistics query of get_database_info is taken to have
\* had.
NoneDereferenced ==
  \/ \E t \in Tasks : exc'[t] \in NoneErrors /\ exc[t] \notin NoneErrors
  \/ \E t \in Tasks : /\ pc[t] \in {"listcoll", "mkcoll_del"}
                       /\ pc'[t] = "connect_ret" /\ exc'[t] = "none"
  \/ /\ last' # NoLast
     /\ \/ last'.res.err \in NoneErrors /\ exc[last'.task] \notin NoneErrors
        \/ last'.res.err = "HTTPException" /\ last'.res.val.cause \in NoneErrors
        \/ \E k \in 1..Len(last'.outs) : last'.outs[k] \in NoneErrors

\* C23: in every interleaving of concurrent operations, the database
\* reference is set at each point where connect() or a store operation uses
\* it: no step of any task dereferences None.
C23_DatabaseSetWhenUsed == [][~NoneDereferenced]_vars

\* Task u has handled a stale-context error by reconnecting: its pending
\* call (a call of its connect sequence, or its retry) is on the client that
\* is now the manager's.
Reconnected(u) == outs[u] = <<"LoopClosed">> /\ client # 0 /\ tclient[u] = client

\* C24: a stale-context invalidation discards only the handle the failing
\* store call used: the step never clears a handle that another operation
\* established by its own reconnect after the same kind of failure.
C24_InvalidationSparesFreshHandle ==
  [][\A t \in Tasks : Invalidates(t) =>
       ~(client # tclient[t] /\ \E u \in Tasks \ {t} : Reconnected(u))]_vars

\* Task t is inside a call of ensure_connected(): before its first check,
\* waiting for the lock, or in the connect sequence under the lock.
InEnsure(t) ==
  /\ op[t] \notin {"none", "startup", "disconnect"}
  /\ pc[t] \in {"ensure", "wait_lock", "connect_ret"} \cup ConnectPcs

\* Task t holds the lock in the connect sequence of ensure_connected().
HoldsLock(t) == InEnsure(t) /\ pc[t] \in ConnectPcs \cup {"connect_ret"}

\* C25: with every driver call ending and every ready task resumed, each call
\* of ensure_connected() ends (it returns, raises or is cancelled): a task
\* waiting for the lock gets out of the wait; and every step by which a task
\* leaves the connect sequence, by return, failure or cancellation, leaves
\* the lock it held released.
C25_EnsureConnectedEnds ==
  /\ \A t \in Tasks : InEnsure(t) ~> ~InEnsure(t)
  /\ \A t \in Tasks : (pc[t] = "wait_lock") ~> (pc[t] # "wait_lock")
  /\ [][\A t \in Tasks : (HoldsLock(t) /\ ~HoldsLock(t)') => ~locks'[lock[t]].locked]_vars

\* C25 witness: the task that held the lock inside connect() was cancelled
\* while the other task waits for that lock: the lock is free and the waiter
\* is first in its queue.
C25_Witness ==
  /\ last.task = 1 /\ last.res.kind = "raise" /\ last.res.err = "CancelledError"
  /\ pc[2] = "wait_lock" /\ lock[2] # 0
  /\ ~locks[lock[2]].locked /\ locks[lock[2]].waiters = <<2>>

====
